---- MODULE Spec2Model ----
\* Model of scripts/parallel_inference.py: input splitting, job planning,
\* the ProcessPoolExecutor run, the progress tally, the summary and cleanup.
EXTENDS Integers, Naturals, Sequences, FiniteSets, TLC

\* Bounds of the model (command-line arguments and input size).
MaxLines == 5
MaxDevices == 2
MaxPerGpu == 2
MaxWorkers == 4

\* Outcomes of one subprocess.run of the external job:
\* "ok" exit 0, "fail" nonzero exit (CalledProcessError),
\* "launch" process could not be started (FileNotFoundError).
RunKinds == {"ok", "fail", "launch"}

\* Values a --gpus entry can take (int(x.strip()); the list is not checked
\* for duplicates).
GpuIds == 0..(MaxDevices - 1)

VARIABLES
    phase,      \* "setup", "running" (inside the executor block), "crashed"
                \* (exception escaped, pool shutting down), "aborted", "done"
    gpus,       \* gpu_ids
    per,        \* args.per_gpu_jobs
    split,      \* args.split_input
    lines,      \* non-blank stripped lines of the input file
    chunks,     \* item sequences written to the chunk files
    artifacts,  \* ordinals of chunk files present on disk
    jobs,       \* job tuples (input: chunk ordinal, 0 = whole input file; gpu)
    workers,    \* max_workers of the pool (total_processes)
    jstate,     \* per job: "pending", "running", "finished", "consumed"
    jres,       \* per job: run kind of its subprocess
    results,    \* jobs whose result was appended to results
    report      \* final summary counts (made: the summary has been computed)

vars == <<phase, gpus, per, split, lines, chunks, artifacts, jobs, workers,
          jstate, jres, results, report>>

Min(a, b) == IF a < b THEN a ELSE b
Max(a, b) == IF a > b THEN a ELSE b

\* split_input_file: chunk_size = max(1, len(lines) // num_chunks), then
\* for i in range(0, len(lines), chunk_size): chunks.append(lines[i:i+chunk_size])
ChunkSize(n, numChunks) == Max(1, n \div numChunks)

RECURSIVE Walk(_, _, _)
Walk(ls, i, cs) ==
    IF i >= Len(ls) THEN << >>
    ELSE << SubSeq(ls, i + 1, Min(i + cs, Len(ls))) >> \o Walk(ls, i + cs, cs)

SplitInputFileFromOne(ls, numChunks) == Walk(ls, 1, ChunkSize(Len(ls), numChunks))

SplitInputFile(ls, numChunks) == Walk(ls, 0, ChunkSize(Len(ls), numChunks))

\* split mode: jobs.append((config, chunk_file, f"chunk_{i}", gpu_ids[i % len(gpu_ids)]))
SplitJobsShifted(cs, g) ==
    [i \in 1..Len(cs) |-> [input |-> i, gpu |-> g[(i % Len(g)) + 1]]]

SplitJobs(cs, g) ==
    [i \in 1..Len(cs) |-> [input |-> i, gpu |-> g[((i - 1) % Len(g)) + 1]]]

\* broadcast mode: for gpu_id in gpu_ids: for job_idx in range(per_gpu_jobs)
BroadcastJobsFirstGpu(g, p) ==
    [i \in 1..(Len(g) * p) |-> [input |-> 0, gpu |-> g[1]]]

BroadcastJobs(g, p) ==
    [i \in 1..(Len(g) * p) |-> [input |-> 0, gpu |-> g[((i - 1) \div p) + 1]]]

\* run_inference_job: CalledProcessError is caught and returned as a failed
\* result; any other exception escapes and is re-raised by future.result().
JobRaises(k) == k = "launch"
JobSuccess(k) == k = "ok"

RunningCount(js) == Cardinality({i \in DOMAIN js : js[i] = "running"})

SuccCount(res, jr) == Cardinality({i \in res : JobSuccess(jr[i])})
FailCount(res, jr) == Cardinality({i \in res : ~JobSuccess(jr[i])})

\* as_completed loop ends once every submitted future has been consumed.
AllConsumedButOne(res, js) == Cardinality(res) >= Len(js) - 1

AllConsumed(res, js) == Cardinality(res) = Len(js)

Init ==
    /\ phase = "setup"
    /\ \E n \in 1..MaxDevices : gpus \in [1..n -> GpuIds]
    /\ per \in 1..MaxPerGpu
    /\ Len(gpus) * per <= MaxWorkers
    /\ split \in BOOLEAN
    /\ \E n \in 0..MaxLines : lines = [k \in 1..n |-> k]
    /\ chunks = << >>
    /\ artifacts = {}
    /\ jobs = << >>
    /\ workers = 0
    /\ jstate = << >>
    /\ jres = << >>
    /\ results = {}
    /\ report = [made |-> FALSE, succ |-> 0, fail |-> 0]

\* main() lines 66-98: total_processes, split or broadcast plan, pool creation
\* and submission of every job.
Plan ==
    /\ phase = "setup"
    /\ LET total == Len(gpus) * per
           cs == IF split THEN SplitInputFile(lines, total) ELSE << >>
           js == IF split THEN SplitJobs(cs, gpus) ELSE BroadcastJobs(gpus, per)
       IN /\ chunks' = cs
          /\ artifacts' = 1..Len(cs)
          /\ jobs' = js
          /\ workers' = total
          /\ jstate' = [i \in 1..Len(js) |-> "pending"]
          /\ jres' = [i \in 1..Len(js) |-> "ok"]
    /\ phase' = "running"
    /\ UNCHANGED <<gpus, per, split, lines, results, report>>

\* A pool worker takes the oldest queued call when a worker slot is free.
\* This continues during executor.shutdown(wait=True) after a crash.
StartJob(i) ==
    /\ phase \in {"running", "crashed"}
    /\ jstate[i] = "pending"
    /\ \A k \in 1..(i - 1) : jstate[k] # "pending"
    /\ RunningCount(jstate) < workers
    /\ jstate' = [jstate EXCEPT ![i] = "running"]
    /\ UNCHANGED <<phase, gpus, per, split, lines, chunks, artifacts, jobs,
                   workers, jres, results, report>>

\* run_inference_job finishes: subprocess.run returns or raises.
FinishJob(i) ==
    /\ phase \in {"running", "crashed"}
    /\ jstate[i] = "running"
    /\ \E k \in RunKinds :
          /\ jstate' = [jstate EXCEPT ![i] = "finished"]
          /\ jres' = [jres EXCEPT ![i] = k]
    /\ UNCHANGED <<phase, gpus, per, split, lines, chunks, artifacts, jobs,
                   workers, results, report>>

\* Loop body of `for future in as_completed(...)`: future.result() re-raises
\* an escaped exception, which leaves main() (the pool is shut down and the
\* cleanup code is never reached); otherwise the result is appended.
ConsumeResult(i) ==
    /\ phase = "running"
    /\ jstate[i] = "finished"
    /\ IF JobRaises(jres[i])
          THEN /\ phase' = "crashed"
               /\ UNCHANGED <<jstate, results>>
          ELSE /\ results' = results \cup {i}
               /\ jstate' = [jstate EXCEPT ![i] = "consumed"]
               /\ UNCHANGED phase
    /\ UNCHANGED <<gpus, per, split, lines, chunks, artifacts, jobs, workers,
                   jres, report>>

\* The with-block's __exit__ (shutdown(wait=True)) returns once every
\* submitted job has run; the exception then leaves main() and the process
\* exits, skipping the summary and the cleanup.
CrashExit ==
    /\ phase = "crashed"
    /\ \A i \in DOMAIN jobs : jstate[i] \notin {"pending", "running"}
    /\ phase' = "aborted"
    /\ UNCHANGED <<gpus, per, split, lines, chunks, artifacts, jobs, workers,
                   jstate, jres, results, report>>

\* main() lines 108-134: summary, then removal of the chunk files that exist.
Finalize ==
    /\ phase = "running"
    /\ AllConsumed(results, jobs)
    /\ report' = [made |-> TRUE, succ |-> SuccCount(results, jres), fail |-> FailCount(results, jres)]
    /\ artifacts' = IF split THEN artifacts \ (1..Len(chunks)) ELSE artifacts
    /\ phase' = "done"
    /\ UNCHANGED <<gpus, per, split, lines, chunks, jobs, workers, jstate, jres, results>>

Next ==
    \/ Plan
    \/ \E i \in DOMAIN jobs : StartJob(i)
    \/ \E i \in DOMAIN jobs : FinishJob(i)
    \/ \E i \in DOMAIN jobs : ConsumeResult(i)
    \/ Finalize
    \/ CrashExit

Spec == Init /\ [][Next]_vars

Planned == phase # "setup"

\* C1: a non-empty input split for a target count T >= 1 yields between 1 and
\* T chunks, and never more chunks than lines.
C1_PartitionCount ==
    (Planned /\ split /\ Len(lines) > 0)
        => /\ Len(chunks) >= 1
           /\ Len(chunks) <= Len(gpus) * per
           /\ Len(chunks) <= Len(lines)

\* C2: concatenating the chunks in ordinal order gives back the input lines
\* exactly, and every chunk holds at least one line.
RECURSIVE ConcatAll(_)
ConcatAll(cs) == IF cs = << >> THEN << >> ELSE Head(cs) \o ConcatAll(Tail(cs))

C2_RoundTrip ==
    (Planned /\ split /\ Len(lines) > 0)
        => /\ ConcatAll(chunks) = lines
           /\ \A k \in 1..Len(chunks) : Len(chunks[k]) >= 1

C2_Witness ==
    /\ Planned /\ split /\ Len(chunks) >= 2
    /\ Len(chunks[1]) >= 2
    /\ Len(chunks[Len(chunks)]) < Len(chunks[1])

\* C3: splitting an empty input fails before any job is launched instead of
\* returning no chunks and running zero jobs.
C3_EmptyWorkloadFails ==
    (split /\ Len(lines) = 0) => phase \in {"setup", "crashed", "aborted"}

\* C4: in split mode there is exactly one job per chunk, each chunk is in
\* exactly one job, and the i-th chunk runs on gpu_ids[i mod len(gpu_ids)].
C4_SplitPlan ==
    (Planned /\ split)
        => /\ Len(jobs) = Len(chunks)
           /\ \A k \in 1..Len(chunks) :
                 Cardinality({i \in DOMAIN jobs : jobs[i].input = k}) = 1
           /\ \A i \in DOMAIN jobs : jobs[i].gpu = gpus[((i - 1) % Len(gpus)) + 1]

C4_Witness == Planned /\ split /\ Len(chunks) > Len(gpus) /\ Len(gpus) >= 2

\* C5: in broadcast mode there are len(gpu_ids) * per_gpu_jobs jobs, each gpu
\* runs exactly per_gpu_jobs of them, and all of them use the whole input file.
C5_BroadcastPlan ==
    (Planned /\ ~split)
        => /\ Len(jobs) = Len(gpus) * per
           /\ \A k \in 1..Len(gpus) :
                 Cardinality({i \in DOMAIN jobs : jobs[i].gpu = gpus[k]}) = per
           /\ \A i \in DOMAIN jobs : jobs[i].input = 0

C5_Witness == Planned /\ ~split /\ Len(gpus) = 2 /\ per = 2

\* C6: every run ends with exactly one outcome per job, whatever each job did;
\* a failing job never keeps the batch from reaching its summary.
C6_AllOutcomes ==
    phase \in {"done", "aborted"} => (phase = "done" /\ Cardinality(results) = Len(jobs))

\* C7: with per_gpu_jobs = 1, no two running jobs are bound to the same gpu.
C7_DeviceExclusive ==
    per = 1 =>
        \A i, j \in DOMAIN jobs :
            (i # j /\ jstate[i] = "running" /\ jstate[j] = "running")
                => jobs[i].gpu # jobs[j].gpu

\* C8: no submitted job ever waits for a free worker slot.
C8_NoQueueing ==
    phase \in {"running", "crashed"} =>
        ((\E i \in DOMAIN jobs : jstate[i] = "pending") => RunningCount(jstate) < workers)

\* C9: the progress tally grows by one per consumed result, success and failure
\* counts partition it and never decrease, and the summary is computed only once
\* every result has arrived, with counts summing to the job count.
Tally == <<Cardinality(results), SuccCount(results, jres), FailCount(results, jres)>>

ConsumedJobs == {i \in DOMAIN jstate : jstate[i] = "consumed"}

\* Jobs whose outcome the main loop takes in during a step.
NewlyConsumed ==
    {i \in DOMAIN jstate' : jstate'[i] = "consumed"
                            /\ (i \notin DOMAIN jstate \/ jstate[i] # "consumed")}

C9_TallyInv ==
    /\ Cardinality(results) = Cardinality(ConsumedJobs)
    /\ SuccCount(results, jres) + FailCount(results, jres) = Cardinality(results)
    /\ Cardinality(results) <= Len(jobs)
    /\ report.made =>
          /\ \A i \in DOMAIN jobs : jstate[i] = "consumed"
          /\ Cardinality(results) = Len(jobs)
          /\ report.succ + report.fail = Len(jobs)

C9_TallyStep ==
    /\ Cardinality(NewlyConsumed) <= 1
    /\ Cardinality(results') = Cardinality(results) + Cardinality(NewlyConsumed)
    /\ SuccCount(results', jres') >= SuccCount(results, jres)
    /\ FailCount(results', jres') >= FailCount(results, jres)

C9_Tally == []C9_TallyInv /\ [][C9_TallyStep]_vars

C9_Witness == phase = "done" /\ report.succ >= 1 /\ report.fail >= 1

\* C10: when a split-mode run has ended, no chunk file is left on disk.
C10_Cleanup == (split /\ phase \in {"done", "aborted"}) => artifacts = {}


====
